---- MODULE Spec2Model ----
(***************************************************************************)
(* Model of the group-partitioning engine of app/group_divider.py:         *)
(*   divide_into_groups        (the partition builder)                     *)
(*   balance_gender_in_groups  (the Metropolis-Hastings gender balancer)   *)
(*                                                                         *)
(* A member is a record with the fields of the GroupMember dataclass that  *)
(* the two functions read.  A group is the sequence Group.members, and a   *)
(* partition is a sequence of groups.  Group positions are 1-based here    *)
(* (position i stands for Python index i-1).                               *)
(***************************************************************************)
EXTENDS Integers, Sequences, FiniteSets, TLC

VARIABLES
    pc,                 \* position in the call: "prep", "leaders", "remaining", "balance", "loop", "done"
    members,            \* divide_into_groups: the input list
    max_iterations,     \* the iteration budget of the call
    groups,             \* divide_into_groups: the groups under construction; balance_gender_in_groups: its argument
    assigned_members,   \* divide_into_groups: set of members already placed
    grad_group_indices, \* divide_into_groups: positions designated as graduate groups ({} if none was)
    balanced_groups,    \* balancer: working partition
    non_grad_groups,    \* balancer: (index, group) pairs captured at entry
    initial_member_ids, \* balancer: ids seen at entry
    current_entropy,    \* balancer: objective of the working partition
    best_entropy,       \* balancer: best objective seen
    best_groups,        \* balancer: partition with the best objective
    temp_member_ids,    \* balancer: ids of the candidate built by the latest iteration that reached the swap ({} before)
    iteration,          \* balancer: number of loop iterations started
    result,             \* the returned partition (<<>> until the call returns)
    requested_num_groups, \* divide_into_groups: the num_groups argument of the call
    attendance,         \* routes: ids of the members marked present today
    current_groups,     \* routes: the module-level current_groups (<<>> for None)
    request,            \* routes: caller and route of the request whose division is running (NoRequest if none is)
    generated,          \* routes: per caller, the partition of its latest successful generation (<<>> if none)
    exported,           \* routes: per caller, the response of its latest GET /groups/markdown
    served,             \* routes: number of requests handled
    response,           \* routes: the latest response of POST /groups/generate
    attendance_rows,    \* routes: the rows of the attendance table, in insertion order
    latest_form,        \* routes: per (member_id, date), the latest form posted to /attendance/record
    score,              \* Group.calculate_diversity_score: the arguments of the call and its outcome
    small_group         \* SmallGroup: members, groups, the arguments of two_members_not_in_same_group and its outcome

vars == <<pc, members, max_iterations, groups, assigned_members, grad_group_indices,
          balanced_groups,
          non_grad_groups, initial_member_ids, current_entropy, best_entropy,
          best_groups, temp_member_ids, iteration, result, requested_num_groups,
          attendance, current_groups, request, generated, exported, served, response,
          attendance_rows, latest_form, score, small_group>>

\* state outside the bodies of the two functions
tableVars == <<attendance_rows, latest_form>>

routesVars == <<attendance, current_groups, request, generated, exported, served, response,
                tableVars>>

\* state of the calls made outside the partitioning pass and the handlers
sideVars == <<score, small_group>>

outerVars == <<requested_num_groups, routesVars, sideVars>>

balancerVars == <<balanced_groups, non_grad_groups, initial_member_ids, current_entropy,
                  best_entropy, best_groups, temp_member_ids, iteration>>

-----------------------------------------------------------------------------
(* Bounds of the model *)

\* most present members of an input of divide_into_groups
MaxMembers == 9
\* most present prep attendees of an input
MaxPrep == 2
\* most present leaders that did not attend prep
MaxLeaders == 2
\* most absent members of an input
MaxAbsent == 1

(* Program constants *)
TARGET_SIZE == 7

-----------------------------------------------------------------------------
(* Generic sequence helpers *)

\* (mutant) the floor of 1 is forgotten
Max2NoFloor(a, b) == b

Max2(a, b) == IF a >= b THEN a ELSE b

Range(s) == {s[i] : i \in 1..Len(s)}

Rep(x, n) == [i \in 1..n |-> x]

\* all orders random.shuffle can leave the list s in
Shuffles(s) ==
    {[i \in 1..Len(s) |-> s[p[i]]] : p \in Permutations(1..Len(s))}

\* list.pop(): the last element is removed
PopRest(s) == SubSeq(s, 1, Len(s) - 1)
PopItem(s) == s[Len(s)]

\* groups[idx].members.append(m)
AppendTo(gs, idx, m) == [gs EXCEPT ![idx] = Append(@, m)]

Count(s, Test(_)) == Len(SelectSeq(s, Test))

\* list.sort(key=...) on a list of group indices: stable, ascending by key[i]
RECURSIVE InsertByKey(_, _, _)
InsertByKey(sorted, x, key) ==
    IF sorted = <<>> THEN <<x>>
    ELSE IF key[x] < key[sorted[Len(sorted)]]
         THEN Append(InsertByKey(PopRest(sorted), x, key), sorted[Len(sorted)])
         ELSE Append(sorted, x)

RECURSIVE SortByKey(_, _)
SortByKey(s, key) ==
    IF s = <<>> THEN <<>>
    ELSE InsertByKey(SortByKey(PopRest(s), key), s[Len(s)], key)

\* min(candidates, key=...): the first candidate with the least key
RECURSIVE FirstMin(_, _)
FirstMin(cands, key) ==
    IF Len(cands) = 1 THEN cands[1]
    ELSE LET rest == FirstMin(PopRest(cands), key)
             last == cands[Len(cands)]
         IN  IF key[last] < key[rest] THEN last ELSE rest

-----------------------------------------------------------------------------
(* Members and groups *)

IsLeader(m) == m.role \in {"facilitator", "counselor"}
IsFacilitator(m) == m.role = "facilitator"
IsCounselor(m) == m.role = "counselor"
EduGraduated(m) == m.education_status = "graduated"

Sizes(gs) == [i \in 1..Len(gs) |-> Len(gs[i])]

\* ids of all members of a partition, group by group
RECURSIVE AllIds(_)
AllIds(gs) ==
    IF gs = <<>> THEN <<>>
    ELSE AllIds(PopRest(gs)) \o [k \in 1..Len(gs[Len(gs)]) |-> gs[Len(gs)][k].id]

-----------------------------------------------------------------------------
(* divide_into_groups *)

\* (mutant) the presence filter is forgotten
present_members_unfiltered == members

present_members == SelectSeq(members, LAMBDA m : m.is_present)
total_present == Len(present_members)
\* (mutant) the caller's group count is used as passed
num_groups_as_requested == requested_num_groups

num_groups == Max2(1, (total_present + TARGET_SIZE - 1) \div TARGET_SIZE)

\* (mutant) every prep attendee goes to the first group of group_indices
PrepTargetFirstGroup(k, group_indices, total_prep) == group_indices[1]

\* 1. prep attendees: min_prep_per_group to every group in group_indices order,
\*    then one extra to each of the first extra_prep groups of group_indices
PrepTarget(k, group_indices, total_prep) ==
    LET min_prep_per_group == total_prep \div num_groups
        first_round == num_groups * min_prep_per_group
    IN  IF k <= first_round
        THEN group_indices[((k - 1) \div min_prep_per_group) + 1]
        ELSE group_indices[k - first_round]

RECURSIVE PlacePrep(_, _, _, _)
PlacePrep(gs, prep_attendees, group_indices, k) ==
    IF k > Len(prep_attendees) THEN gs
    ELSE PlacePrep(AppendTo(gs, PrepTarget(k, group_indices, Len(prep_attendees)),
                            prep_attendees[k]),
                   prep_attendees, group_indices, k + 1)

DividePrep ==
    /\ pc = "prep"
    /\ \E prep_attendees \in Shuffles(SelectSeq(present_members, LAMBDA m : m.prep_attended)),
          group_indices \in Shuffles([i \in 1..num_groups |-> i]) :
          /\ groups' = PlacePrep([i \in 1..num_groups |-> <<>>], prep_attendees,
                                 group_indices, 1)
          /\ assigned_members' = Range(prep_attendees)
    /\ pc' = "leaders"
    /\ UNCHANGED <<members, max_iterations, grad_group_indices, balancerVars, result>>
    /\ UNCHANGED outerVars

\* 2. leaders that did not attend prep
\* first and second pass: one leader of the kind to each listed group, while the list lasts
RECURSIVE AssignOneEach(_, _, _)
AssignOneEach(gs, idxs, remaining) ==
    IF idxs = <<>> THEN [groups |-> gs, remaining |-> remaining]
    ELSE IF remaining # <<>>
         THEN AssignOneEach(AppendTo(gs, idxs[1], PopItem(remaining)),
                            Tail(idxs), PopRest(remaining))
         ELSE AssignOneEach(gs, Tail(idxs), remaining)

\* indices, in order, of the groups holding no member that passes Test
GroupsWithout(gs, Test(_)) ==
    SelectSeq([i \in 1..Len(gs) |-> i], LAMBDA i : Count(gs[i], Test) = 0)

\* third pass: each facilitator left, in list order, joins the first group of
\* available_groups, which is re-sorted by size after every placement
RECURSIVE DistributeFacilitators(_, _, _)
DistributeFacilitators(gs, remaining_facilitators, available_groups) ==
    IF remaining_facilitators = <<>> THEN gs
    ELSE LET placed == AppendTo(gs, available_groups[1], remaining_facilitators[1])
         IN  DistributeFacilitators(placed, Tail(remaining_facilitators),
                                    SortByKey(available_groups, Sizes(placed)))

\* key of the fourth pass: (number of counselors, size), compared lexicographically
CounselorKey(gs) ==
    [i \in 1..Len(gs) |-> Count(gs[i], IsCounselor) * (MaxMembers + MaxAbsent + 2) + Len(gs[i])]

\* fourth pass: while counselors are left, sort and pop one into the first group
RECURSIVE DistributeCounselors(_, _, _)
DistributeCounselors(gs, remaining_counselors, available_groups) ==
    IF remaining_counselors = <<>> THEN gs
    ELSE LET sorted == SortByKey(available_groups, CounselorKey(gs))
         IN  DistributeCounselors(AppendTo(gs, sorted[1], PopItem(remaining_counselors)),
                                  PopRest(remaining_counselors), sorted)

SeedLeaders(gs, facilitators, counselors, shuffled_indices) ==
    LET first  == AssignOneEach(gs, GroupsWithout(gs, IsFacilitator), facilitators)
        second == AssignOneEach(first.groups, GroupsWithout(first.groups, IsCounselor),
                                counselors)
        third  == IF first.remaining # <<>>
                  THEN DistributeFacilitators(second.groups, first.remaining,
                           SortByKey(shuffled_indices, Sizes(second.groups)))
                  ELSE second.groups
    IN  DistributeCounselors(third, second.remaining, [i \in 1..Len(gs) |-> i])

DivideLeaders ==
    /\ pc = "leaders"
    /\ \E remaining_facilitators \in
              Shuffles(SelectSeq(present_members,
                  LAMBDA m : IsFacilitator(m) /\ m \notin assigned_members)),
          remaining_counselors \in
              Shuffles(SelectSeq(present_members,
                  LAMBDA m : IsCounselor(m) /\ m \notin assigned_members)),
          available_groups \in Shuffles([i \in 1..Len(groups) |-> i]) :
          /\ groups' = SeedLeaders(groups, remaining_facilitators, remaining_counselors,
                                   available_groups)
          /\ assigned_members' = assigned_members \cup Range(remaining_facilitators)
                                     \cup Range(remaining_counselors)
    /\ pc' = "remaining"
    /\ UNCHANGED <<members, max_iterations, grad_group_indices, balancerVars, result>>
    /\ UNCHANGED outerVars

\* 3. the remaining members: graduates to the graduate groups, students to the others
GradCounts(gs) == [i \in 1..Len(gs) |-> Count(gs[i], EduGraduated)]

\* sorted(enumerate(groups), key=graduates, reverse=True): stable, descending
GroupsByGradCount(gs) ==
    SortByKey([i \in 1..Len(gs) |-> i], [i \in 1..Len(gs) |-> 0 - GradCounts(gs)[i]])

\* each member of the list, in order, joins the smallest of the candidate groups
RECURSIVE FillSmallest(_, _, _)
FillSmallest(gs, list, cands) ==
    IF list = <<>> THEN gs
    ELSE FillSmallest(AppendTo(gs, FirstMin(cands, Sizes(gs)), list[1]), Tail(list), cands)

\* (mutant) the sort is not reversed: the groups with the fewest graduates are taken
GradGroupIndicesAscending(gs, graduates) ==
    LET num_grad_groups == (Len(graduates) + TARGET_SIZE - 1) \div TARGET_SIZE
        ascending == SortByKey([i \in 1..Len(gs) |-> i], GradCounts(gs))
    IN  Range(SubSeq(ascending, 1, num_grad_groups))

\* the positions of the num_grad_groups groups holding the most graduates so far
GradGroupIndices(gs, graduates) ==
    LET num_grad_groups == (Len(graduates) + TARGET_SIZE - 1) \div TARGET_SIZE
    IN  Range(SubSeq(GroupsByGradCount(gs), 1, num_grad_groups))

PlaceRemaining(gs, unassigned) ==
    LET graduates == SelectSeq(unassigned, EduGraduated)
        current_students == SelectSeq(unassigned, LAMBDA m : ~EduGraduated(m))
        all == [i \in 1..Len(gs) |-> i]
        designated == GradGroupIndices(gs, graduates)
        grad_list == SelectSeq(all, LAMBDA i : i \in designated)
        non_grad_list == SelectSeq(all, LAMBDA i : i \notin designated)
    IN  IF graduates # <<>>
        THEN LET with_grads == FillSmallest(gs, graduates, grad_list)
             IN  IF non_grad_list # <<>>
                 THEN FillSmallest(with_grads, current_students, non_grad_list)
                 ELSE FillSmallest(with_grads, current_students, all)
        ELSE FillSmallest(gs, current_students, all)

DivideRemaining ==
    /\ pc = "remaining"
    /\ LET unassigned == SelectSeq(present_members, LAMBDA m : m \notin assigned_members)
           built == PlaceRemaining(groups, unassigned)
       IN  /\ groups' = built
           /\ assigned_members' = assigned_members \cup Range(unassigned)
           /\ grad_group_indices' = GradGroupIndices(groups, SelectSeq(unassigned, EduGraduated))
           /\ IF max_iterations > 0
              THEN pc' = "balance" /\ result' = result
              ELSE pc' = "done" /\ result' = built
    /\ UNCHANGED <<members, max_iterations, balancerVars>>
    /\ UNCHANGED outerVars

-----------------------------------------------------------------------------
(* Inputs of divide_into_groups: every mix, within the bounds, of            *)
(*   absent members, prep attendees of each role (and graduated regulars),  *)
(*   leaders that skipped prep, graduated regulars and current students.    *)
(* Ids are the positions in the list, so they are pairwise distinct.        *)

Profile(kind) ==
    CASE kind = "absent"      -> [role |-> "facilitator", edu |-> "undergraduate", prep |-> TRUE,  present |-> FALSE]
      [] kind = "prepFac"     -> [role |-> "facilitator", edu |-> "undergraduate", prep |-> TRUE,  present |-> TRUE]
      [] kind = "prepCoun"    -> [role |-> "counselor",   edu |-> "undergraduate", prep |-> TRUE,  present |-> TRUE]
      [] kind = "prepReg"     -> [role |-> "regular",     edu |-> "undergraduate", prep |-> TRUE,  present |-> TRUE]
      [] kind = "prepGrad"    -> [role |-> "regular",     edu |-> "graduated",     prep |-> TRUE,  present |-> TRUE]
      [] kind = "fac"         -> [role |-> "facilitator", edu |-> "undergraduate", prep |-> FALSE, present |-> TRUE]
      [] kind = "coun"        -> [role |-> "counselor",   edu |-> "graduated",     prep |-> FALSE, present |-> TRUE]
      [] kind = "grad"        -> [role |-> "regular",     edu |-> "graduated",     prep |-> FALSE, present |-> TRUE]
      [] kind = "stud"        -> [role |-> "regular",     edu |-> "undergraduate", prep |-> FALSE, present |-> TRUE]
      [] kind = "counStud"    -> [role |-> "counselor",   edu |-> "undergraduate", prep |-> FALSE, present |-> TRUE]

GroupMember(i, kind) ==
    LET p == Profile(kind)
    IN  [id |-> i, role |-> p.role, gender |-> IF i % 2 = 1 THEN "M" ELSE "F",
         education_status |-> p.edu, is_graduated |-> (p.edu = "graduated"),
         is_present |-> p.present, prep_attended |-> p.prep]

MemberList(kinds) == [i \in 1..Len(kinds) |-> GroupMember(i, kinds[i])]

PrepCounts == {c \in [1..4 -> 0..MaxPrep] : c[1] + c[2] + c[3] + c[4] <= MaxPrep}
LeaderCounts == {c \in [1..2 -> 0..MaxLeaders] : c[1] + c[2] <= MaxLeaders}
RestCounts == {c \in [1..2 -> 0..MaxMembers] : c[1] + c[2] <= MaxMembers}

DivideInputs ==
    {MemberList(Rep("stud", r[2]) \o Rep("absent", a) \o Rep("prepReg", p[3])
                \o Rep("coun", l[2]) \o Rep("prepFac", p[1]) \o Rep("grad", r[1])
                \o Rep("prepGrad", p[4]) \o Rep("fac", l[1]) \o Rep("prepCoun", p[2])) :
        p \in PrepCounts, l \in LeaderCounts, a \in 0..MaxAbsent,
        r \in RestCounts }

\* the browsers that send requests to the application
Callers == {"a", "b"}

\* what a caller sees of GET /groups/markdown before asking for it
NoExport == [asked |-> FALSE, markdown |-> [sections |-> <<>>, notice |-> ""], latest |-> <<>>]

\* no request with a division is being served
NoRequest == [caller |-> "none", route |-> "none"]

\* POST /groups/generate has not been asked for
NoResponse == [sent |-> FALSE, present |-> 0, raised |-> "", groups |-> <<>>, error |-> ""]

\* the attendance_date strings posted to /attendance/record
AttendanceDates == {"2025-01-05", "20250105", "2025-01-06"}

\* date.fromisoformat: the date, as <<year, month, day>>, of a string in
\* either ISO 8601 form
fromisoformat(text) ==
    CASE text = "2025-01-05" -> <<2025, 1, 5>>
      [] text = "20250105"   -> <<2025, 1, 5>>
      [] text = "2025-01-06" -> <<2025, 1, 6>>

\* the member ids posted to /attendance/record
AttendanceMembers == {1, 2}

\* the (member_id, date) pairs a row can have
AttendancePairs == AttendanceMembers \X {fromisoformat(text) : text \in AttendanceDates}

\* no form has been posted for a pair
NoForm == [count |-> 0, present |-> "", notes |-> ""]

\* a call made outside the web application: no request, nothing stored
NoServer ==
    /\ attendance = {}
    /\ response = NoResponse
    /\ attendance_rows = <<>>
    /\ latest_form = [p \in AttendancePairs |-> NoForm]
    /\ current_groups = <<>>
    /\ request = NoRequest
    /\ generated = [c \in Callers |-> <<>>]
    /\ exported = [c \in Callers |-> NoExport]
    /\ served = 0

\* no other call is made
NoSideCalls ==
    /\ score = [self |-> <<>>, all_groups |-> <<>>, with_target_size |-> FALSE,
                target_size |-> 0, outcome |-> "none", value |-> 0]
    /\ small_group = [members |-> <<>>, groups |-> <<>>, mbr1 |-> 0, mbr2 |-> 0,
                      returned |-> FALSE, passed |-> FALSE]

\* the state at the call divide_into_groups(ms, k, max_iterations=n)
DivideCall(ms, k, n) ==
    /\ pc = "prep"
    /\ NoServer
    /\ NoSideCalls
    /\ requested_num_groups = k
    /\ members = ms
    /\ max_iterations = n
    /\ groups = <<>>
    /\ assigned_members = {}
    /\ grad_group_indices = {}
    /\ balanced_groups = <<>>
    /\ non_grad_groups = <<>>
    /\ initial_member_ids = {}
    /\ current_entropy = 0
    /\ best_entropy = 0
    /\ best_groups = <<>>
    /\ temp_member_ids = {}
    /\ iteration = 0
    /\ result = <<>>

InitDivide ==
    \E ms \in DivideInputs :
        /\ Len(SelectSeq(ms, LAMBDA m : m.is_present)) <= MaxMembers
        /\ DivideCall(ms, 2, 0)

NextDivide == DividePrep \/ DivideLeaders \/ DivideRemaining

SpecDivide == InitDivide /\ [][NextDivide]_vars

(* Calls with every requested group count: inputs of students, absent members *)
(* and facilitators, num_groups argument from 1 to MaxRequested.              *)

\* largest num_groups argument of a call
MaxRequested == 3

RequestedInputs ==
    {MemberList(Rep("stud", s) \o Rep("absent", a) \o Rep("fac", f)) :
        s \in 0..MaxMembers, a \in 0..MaxAbsent, f \in 0..MaxLeaders}

InitDivideRequested ==
    \E ms \in RequestedInputs, k \in 1..MaxRequested :
        /\ Len(SelectSeq(ms, LAMBDA m : m.is_present)) <= MaxMembers
        /\ DivideCall(ms, k, 0)

SpecDivideRequested == InitDivideRequested /\ [][NextDivide]_vars

(* Calls on leader-heavy inputs without graduated members: three prep        *)
(* attendees (regular members, counselors, at most one facilitator), at most *)
(* one facilitator and up to MaxSeedCounselors counselors that skipped prep, *)
(* and students up to 8 or 9 present members (two groups).                   *)

\* most counselors that skipped prep in a leader-heavy input
MaxSeedCounselors == 5

SeedPrepCounts ==
    {c \in [1..3 -> 0..2] : c[1] + c[2] + c[3] = 3 /\ c[3] <= 1}

SeededInputs ==
    {MemberList(Rep("prepReg", p[1]) \o Rep("prepCoun", p[2]) \o Rep("prepFac", p[3])
                \o Rep("fac", f) \o Rep("counStud", c) \o Rep("stud", Max2(0, 5 - c))) :
        p \in SeedPrepCounts, f \in 0..1, c \in 0..MaxSeedCounselors}

InitDivideSeeded == \E ms \in SeededInputs : DivideCall(ms, 2, 0)

SpecDivideSeeded == InitDivideSeeded /\ [][NextDivide]_vars

-----------------------------------------------------------------------------
(* balance_gender_in_groups                                                  *)
(*                                                                           *)
(* Entropies are kept in millionths of a nat: LnMicro[n] is ln(n) rounded to *)
(* six decimals, and a proportion is reduced to lowest terms first, so that  *)
(* equal proportions give equal entropies as they do in floating point.      *)
(* random.random() < exp(delta / temperature) is a free choice when delta is *)
(* negative and certain when delta is 0 (exp(0) = 1.0 exceeds every draw);   *)
(* the temperature itself is not kept.                                       *)

LnMicro == <<0, 693147, 1098612, 1386294, 1609438, 1791759, 1945910, 2079442,
             2197225, 2302585, 2397895, 2484907>>

\* float("-inf")
NegInf == -1000000000

RECURSIVE Gcd(_, _)
Gcd(a, b) == IF b = 0 THEN a ELSE Gcd(b, a % b)

\* -p_a ln(p_a) - p_b ln(p_b) for p_a = a/(a+b), p_b = b/(a+b); 0 when a + b = 0
EntropyOfCounts(a, b) ==
    IF a + b = 0 THEN 0
    ELSE LET g == Gcd(a, b)
             x == a \div g
             y == b \div g
             t == x + y
         IN  ((IF x > 0 THEN x * (LnMicro[t] - LnMicro[x]) ELSE 0)
            + (IF y > 0 THEN y * (LnMicro[t] - LnMicro[y]) ELSE 0)) \div t

\* {m.id for g in groups for m in g.members}
get_member_ids(gs) == UNION {{gs[i][k].id : k \in 1..Len(gs[i])} : i \in 1..Len(gs)}

\* number of members of a partition, counted with repetition
RECURSIVE TotalSize(_)
TotalSize(gs) == IF gs = <<>> THEN 0 ELSE Len(gs[1]) + TotalSize(Tail(gs))

\* len(all_ids) != len(set(all_ids))
has_duplicates(gs) == TotalSize(gs) # Cardinality(get_member_ids(gs))

\* (mutant) the role test is forgotten
can_swap_any_role(m1, m2) ==
    /\ m1.gender # m2.gender
    /\ m1.prep_attended = m2.prep_attended
    /\ ~m1.is_graduated
    /\ ~m2.is_graduated

can_swap(m1, m2) ==
    /\ m1.gender # m2.gender
    /\ m1.role = m2.role
    /\ m1.prep_attended = m2.prep_attended
    /\ ~m1.is_graduated
    /\ ~m2.is_graduated

\* (mutant) every group takes part in the balancing
is_non_graduate_group_always(group) == TRUE

is_non_graduate_group(group) ==
    Count(group, LAMBDA m : m.role = "regular" /\ m.is_graduated) = 0

GroupEntropy(group) ==
    EntropyOfCounts(Count(group, LAMBDA m : m.gender = "M"),
                    Count(group, LAMBDA m : m.gender = "F"))

CounselorEntropy(group) ==
    EntropyOfCounts(Count(group, LAMBDA m : m.gender = "M" /\ IsCounselor(m)),
                    Count(group, LAMBDA m : m.gender = "F" /\ IsCounselor(m)))

RECURSIVE TotalEntropy(_)
TotalEntropy(gs) ==
    IF gs = <<>> THEN 0
    ELSE TotalEntropy(PopRest(gs))
         + (IF is_non_graduate_group(gs[Len(gs)])
            THEN GroupEntropy(gs[Len(gs)]) + CounselorEntropy(gs[Len(gs)])
            ELSE 0)

calculate_gender_entropy(gs) ==
    IF has_duplicates(gs) THEN NegInf ELSE TotalEntropy(gs)

\* (mutant) only the groups to be balanced are copied
WorkingCopyOfNonGraduateGroups(gs) == SelectSeq(gs, is_non_graduate_group)

\* balanced_groups = [Group(members=list(group.members)) for group in groups]
WorkingCopy(gs) == gs

\* [(i, g) for i, g in enumerate(balanced_groups) if is_non_graduate_group(g)]
NonGradGroups(gs) ==
    LET idxs == SelectSeq([i \in 1..Len(gs) |-> i], LAMBDA i : is_non_graduate_group(gs[i]))
    IN  [n \in 1..Len(idxs) |-> <<idxs[n], gs[idxs[n]]>>]

swappable_pairs(g1, g2) ==
    {<<g1[a], g2[b]>> : <<a, b>> \in
        {q \in (1..Len(g1)) \X (1..Len(g2)) : can_swap(g1[q[1]], g2[q[2]])}}

\* [new if m == old else m for m in group_members]
ReplaceMember(group_members, old, new) ==
    [k \in 1..Len(group_members) |->
        IF group_members[k] = old THEN new ELSE group_members[k]]

\* (mutant) the two groups are read from the working partition
TempGroupsOfWorkingPartition(a, b, m1, m2) ==
    LET g1_idx == non_grad_groups[a][1]
        g1 == balanced_groups[g1_idx]
        g2_idx == non_grad_groups[b][1]
        g2 == balanced_groups[g2_idx]
    IN  [balanced_groups EXCEPT ![g1_idx] = ReplaceMember(g1, m1, m2),
                                ![g2_idx] = ReplaceMember(g2, m2, m1)]

\* temp_groups: the working partition with positions g1_idx and g2_idx replaced by
\* the captured groups g1 and g2 with m1 and m2 exchanged
TempGroups(a, b, m1, m2) ==
    LET g1_idx == non_grad_groups[a][1]
        g1 == non_grad_groups[a][2]
        g2_idx == non_grad_groups[b][1]
        g2 == non_grad_groups[b][2]
    IN  [balanced_groups EXCEPT ![g1_idx] = ReplaceMember(g1, m1, m2),
                                ![g2_idx] = ReplaceMember(g2, m2, m1)]

\* delta_entropy > 0 or random.random() < exp(delta_entropy / temperature) can hold:
\* delta_entropy is not -inf or nan
MayAccept(new_entropy) == new_entropy # NegInf

\* ... and cannot fail: delta_entropy >= 0
MustAccept(new_entropy, cur_entropy) ==
    /\ new_entropy # NegInf
    /\ (cur_entropy = NegInf \/ new_entropy >= cur_entropy)

\* (mutant) every accepted state replaces the best one
IsNewBestAlways(cur_entropy, best) == TRUE

\* if current_entropy > best_entropy
IsNewBest(cur_entropy, best) == cur_entropy > best

BalanceEntry ==
    /\ pc = "balance"
    /\ LET copy == WorkingCopy(groups)
           ngg == NonGradGroups(copy)
       IN  /\ balanced_groups' = copy
           /\ non_grad_groups' = ngg
           /\ IF Len(ngg) < 2
              THEN /\ pc' = "done"
                   /\ result' = groups
                   /\ UNCHANGED <<initial_member_ids, current_entropy, best_entropy,
                                  best_groups>>
              ELSE /\ pc' = "loop"
                   /\ initial_member_ids' = get_member_ids(copy)
                   /\ current_entropy' = calculate_gender_entropy(copy)
                   /\ best_entropy' = calculate_gender_entropy(copy)
                   /\ best_groups' = copy
                   /\ result' = result
    /\ UNCHANGED <<members, max_iterations, groups, assigned_members, grad_group_indices,
                   temp_member_ids, iteration>>
    /\ UNCHANGED outerVars

InLoop == pc = "loop" /\ iteration < max_iterations

\* g1_idx == g2_idx: continue
IterSameGroup ==
    /\ InLoop
    /\ \E a \in 1..Len(non_grad_groups), b \in 1..Len(non_grad_groups) :
          non_grad_groups[a][1] = non_grad_groups[b][1]
    /\ iteration' = iteration + 1
    /\ UNCHANGED <<pc, members, max_iterations, groups, assigned_members, grad_group_indices,
                   balanced_groups, non_grad_groups, initial_member_ids, current_entropy,
                   best_entropy, best_groups, temp_member_ids, result>>
    /\ UNCHANGED outerVars

\* not swappable_pairs: continue
IterNoSwappablePairs ==
    /\ InLoop
    /\ \E a \in 1..Len(non_grad_groups), b \in 1..Len(non_grad_groups) :
          /\ non_grad_groups[a][1] # non_grad_groups[b][1]
          /\ swappable_pairs(non_grad_groups[a][2], non_grad_groups[b][2]) = {}
    /\ iteration' = iteration + 1
    /\ UNCHANGED <<pc, members, max_iterations, groups, assigned_members, grad_group_indices,
                   balanced_groups, non_grad_groups, initial_member_ids, current_entropy,
                   best_entropy, best_groups, temp_member_ids, result>>
    /\ UNCHANGED outerVars

\* (mutant) a candidate with other ids ends the pass and the input is returned
IterDivergedAborts ==
    /\ InLoop
    /\ \E a \in 1..Len(non_grad_groups), b \in 1..Len(non_grad_groups) :
          /\ non_grad_groups[a][1] # non_grad_groups[b][1]
          /\ \E pair \in swappable_pairs(non_grad_groups[a][2], non_grad_groups[b][2]) :
                LET temp_groups == TempGroups(a, b, pair[1], pair[2])
                IN  /\ get_member_ids(temp_groups) # initial_member_ids
                    /\ temp_member_ids' = get_member_ids(temp_groups)
    /\ iteration' = iteration + 1
    /\ pc' = "done"
    /\ result' = groups
    /\ UNCHANGED <<members, max_iterations, groups, assigned_members, grad_group_indices,
                   balanced_groups, non_grad_groups, initial_member_ids, current_entropy,
                   best_entropy, best_groups>>
    /\ UNCHANGED outerVars

\* temp_member_ids != initial_member_ids: continue
IterDiverged ==
    /\ InLoop
    /\ \E a \in 1..Len(non_grad_groups), b \in 1..Len(non_grad_groups) :
          /\ non_grad_groups[a][1] # non_grad_groups[b][1]
          /\ \E pair \in swappable_pairs(non_grad_groups[a][2], non_grad_groups[b][2]) :
                LET temp_groups == TempGroups(a, b, pair[1], pair[2])
                IN  /\ get_member_ids(temp_groups) # initial_member_ids
                    /\ temp_member_ids' = get_member_ids(temp_groups)
    /\ iteration' = iteration + 1
    /\ UNCHANGED <<pc, members, max_iterations, groups, assigned_members, grad_group_indices,
                   balanced_groups, non_grad_groups, initial_member_ids, current_entropy,
                   best_entropy, best_groups, result>>
    /\ UNCHANGED outerVars

\* the candidate is accepted: it becomes the working partition, and the best one if better
IterAccept ==
    /\ InLoop
    /\ \E a \in 1..Len(non_grad_groups), b \in 1..Len(non_grad_groups) :
          /\ non_grad_groups[a][1] # non_grad_groups[b][1]
          /\ \E pair \in swappable_pairs(non_grad_groups[a][2], non_grad_groups[b][2]) :
                LET temp_groups == TempGroups(a, b, pair[1], pair[2])
                    new_entropy == calculate_gender_entropy(temp_groups)
                IN  /\ get_member_ids(temp_groups) = initial_member_ids
                    /\ MayAccept(new_entropy)
                    /\ temp_member_ids' = get_member_ids(temp_groups)
                    /\ balanced_groups' = temp_groups
                    /\ current_entropy' = new_entropy
                    /\ IF IsNewBest(new_entropy, best_entropy)
                       THEN best_entropy' = new_entropy /\ best_groups' = temp_groups
                       ELSE UNCHANGED <<best_entropy, best_groups>>
    /\ iteration' = iteration + 1
    /\ UNCHANGED <<pc, members, max_iterations, groups, assigned_members, grad_group_indices,
                   non_grad_groups, initial_member_ids, result>>
    /\ UNCHANGED outerVars

\* the candidate is rejected: only the temperature changes
IterReject ==
    /\ InLoop
    /\ \E a \in 1..Len(non_grad_groups), b \in 1..Len(non_grad_groups) :
          /\ non_grad_groups[a][1] # non_grad_groups[b][1]
          /\ \E pair \in swappable_pairs(non_grad_groups[a][2], non_grad_groups[b][2]) :
                LET temp_groups == TempGroups(a, b, pair[1], pair[2])
                    new_entropy == calculate_gender_entropy(temp_groups)
                IN  /\ get_member_ids(temp_groups) = initial_member_ids
                    /\ ~MustAccept(new_entropy, current_entropy)
                    /\ temp_member_ids' = get_member_ids(temp_groups)
    /\ iteration' = iteration + 1
    /\ UNCHANGED <<pc, members, max_iterations, groups, assigned_members, grad_group_indices,
                   balanced_groups, non_grad_groups, initial_member_ids, current_entropy,
                   best_entropy, best_groups, result>>
    /\ UNCHANGED outerVars

\* (mutant) the pass also returns once more than 100 iterations in a row have
\* brought no improvement
BalanceReturnOnceStagnant ==
    /\ pc = "loop"
    /\ \/ iteration = max_iterations
       \/ iteration > 100 /\ best_entropy = calculate_gender_entropy(groups)
    /\ pc' = "done"
    /\ result' = IF has_duplicates(best_groups) THEN groups ELSE best_groups
    /\ UNCHANGED <<members, max_iterations, groups, assigned_members, grad_group_indices,
                   balancerVars>>
    /\ UNCHANGED outerVars

\* after the loop: the best partition, or the input if the best one has duplicates
BalanceReturn ==
    /\ pc = "loop"
    /\ iteration = max_iterations
    /\ pc' = "done"
    /\ result' = IF has_duplicates(best_groups) THEN groups ELSE best_groups
    /\ UNCHANGED <<members, max_iterations, groups, assigned_members, grad_group_indices,
                   balancerVars>>
    /\ UNCHANGED outerVars

-----------------------------------------------------------------------------
(* Inputs of balance_gender_in_groups: every partition of at most MaxGroups  *)
(* groups, each with one of the compositions below, the groups listed in the *)
(* order of the compositions (the balancer draws its groups at random, so    *)
(* the order of the groups carries no information); ids number the members   *)
(* in order, so they are pairwise distinct.  A code gives gender (M/F), then *)
(* role (r regular, c counselor, f facilitator), then p (attended prep) or   *)
(* g (graduated).                                                            *)

\* most groups of an input partition of the balancer
MaxGroups == 3
\* largest iteration budget of a balancer call
MaxIterations == 2

BalanceMember(i, code) ==
    LET role == CASE code \in {"Mr", "Fr", "Mrp", "Frp", "Frg"} -> "regular"
                  [] code \in {"Mc", "Fc", "Fcg"} -> "counselor"
                  [] code \in {"Mf", "Ff"} -> "facilitator"
        grad == code \in {"Frg", "Fcg"}
    IN  [id |-> i, role |-> role,
         gender |-> IF code \in {"Mr", "Mrp", "Mc", "Mf"} THEN "M" ELSE "F",
         education_status |-> IF grad THEN "graduated" ELSE "undergraduate",
         is_graduated |-> grad, is_present |-> TRUE,
         prep_attended |-> code \in {"Mrp", "Frp"}]

Compositions ==
    << <<"Mc", "Mc", "Fr", "Fr">>,
       <<"Mrp", "Frp">>,
       <<"Frg", "Mr">>,
       <<"Mc", "Fc">>,
       <<>>,
       <<"Mf", "Fcg">>,
       <<"Fc", "Fc", "Mr", "Mr">> >>

\* the partition with the given compositions, ids numbered from first
RECURSIVE BuildGroups(_, _)
BuildGroups(comps, first) ==
    IF comps = <<>> THEN <<>>
    ELSE <<[k \in 1..Len(comps[1]) |-> BalanceMember(first + k - 1, comps[1][k])]>>
         \o BuildGroups(Tail(comps), first + Len(comps[1]))

BalanceInputs ==
    UNION {{BuildGroups([i \in 1..n |-> Compositions[c[i]]], 1) :
                c \in {d \in [1..n -> 1..Len(Compositions)] :
                          \A i \in 1..n, j \in 1..n : i < j => d[i] <= d[j]}} :
           n \in 0..MaxGroups}

\* the state at the call balance_gender_in_groups(gs, n)
BalanceCall(gs, n) ==
    /\ pc = "balance"
    /\ NoServer
    /\ NoSideCalls
    /\ requested_num_groups = 0
    /\ members = <<>>
    /\ max_iterations = n
    /\ groups = gs
    /\ assigned_members = {}
    /\ grad_group_indices = {}
    /\ balanced_groups = <<>>
    /\ non_grad_groups = <<>>
    /\ initial_member_ids = {}
    /\ current_entropy = 0
    /\ best_entropy = 0
    /\ best_groups = <<>>
    /\ temp_member_ids = {}
    /\ iteration = 0
    /\ result = <<>>

InitBalance ==
    \E gs \in BalanceInputs, n \in 0..MaxIterations : BalanceCall(gs, n)

NextBalance ==
    \/ BalanceEntry
    \/ IterSameGroup
    \/ IterNoSwappablePairs
    \/ IterDiverged
    \/ IterAccept
    \/ IterReject
    \/ BalanceReturn

SpecBalance == InitBalance /\ [][NextBalance]_vars

(* Long passes: the partitions of two groups with a budget of                *)
(* MaxLongIterations iterations, enough for more than 100 iterations in a    *)
(* row to bring no improvement.  A candidate cannot diverge with two groups. *)
(* for iteration in range(max_iterations) has no break, so a started pass    *)
(* keeps taking steps until it returns: weak fairness of the steps.          *)

\* iteration budget of a long pass
MaxLongIterations == 103

InitBalanceLong ==
    \E gs \in {g \in BalanceInputs : Len(g) = 2} : BalanceCall(gs, MaxLongIterations)

NextBalanceLong ==
    \/ BalanceEntry
    \/ IterSameGroup
    \/ IterNoSwappablePairs
    \/ IterAccept
    \/ IterReject
    \/ BalanceReturn

SpecBalanceLong == InitBalanceLong /\ [][NextBalanceLong]_vars /\ WF_vars(NextBalanceLong)

-----------------------------------------------------------------------------
(* divide_into_groups with any max_iterations: the partition built by the    *)
(* three phases is handed to balance_gender_in_groups when the budget is     *)
(* positive.  The inputs have 8 present members (two groups): prep attendees *)
(* (regular members and at most one facilitator), one facilitator that       *)
(* skipped prep, at most one counselor and one graduate, the rest students;  *)
(* and one input in which members of equal role and prep attendance have the *)
(* same gender.  With two groups every candidate of the balancer has the ids *)
(* of the input, so the step for a candidate with other ids cannot occur.    *)

BalancedDivideInputs ==
    {MemberList(Rep("stud", 7 - p - f - c - g) \o Rep("prepReg", p) \o Rep("prepFac", f)
                \o Rep("coun", c) \o Rep("grad", g) \o Rep("fac", 1)) :
        p \in 0..MaxPrep, f \in 0..1, c \in 0..1, g \in 0..1}
    \cup {MemberList(<<"stud", "coun", "stud", "fac", "stud", "prepReg", "stud", "prepReg">>)}

InitDivideBalanced ==
    \E ms \in BalancedDivideInputs, n \in 0..MaxIterations : DivideCall(ms, 2, n)

NextDivideBalanced ==
    \/ DividePrep
    \/ DivideLeaders
    \/ DivideRemaining
    \/ BalanceEntry
    \/ IterSameGroup
    \/ IterNoSwappablePairs
    \/ IterAccept
    \/ IterReject
    \/ BalanceReturn

SpecDivideBalanced == InitDivideBalanced /\ [][NextDivideBalanced]_vars

-----------------------------------------------------------------------------
(* The requests of app/routes.py that generate and export groups.  The       *)
(* handlers are coroutines without an await, served by one event loop, so a  *)
(* request runs from start to end before the next one starts: a request is   *)
(* accepted only when pc = "idle".  POST /divide-groups runs                 *)
(* divide_into_groups through the actions above and ends in                  *)
(* divide_groups_store.  The database holds the rows of Roster; attendance   *)
(* holds the ids marked present today.  At most 7 members are present, so    *)
(* every call forms one group and the balancer returns at once.              *)

\* most requests handled in a behaviour
MaxRequests == 4

\* rows of the members table
Roster ==
    << [id |-> 1, role |-> "facilitator", gender |-> "M", education_status |-> "undergraduate",
        prep_attended |-> TRUE,  active |-> TRUE],
       [id |-> 2, role |-> "counselor",   gender |-> "F", education_status |-> "graduated",
        prep_attended |-> FALSE, active |-> TRUE],
       [id |-> 3, role |-> "none",        gender |-> "M", education_status |-> "undergraduate",
        prep_attended |-> TRUE,  active |-> TRUE],
       [id |-> 4, role |-> "none",        gender |-> "F", education_status |-> "graduate",
        prep_attended |-> FALSE, active |-> TRUE],
       [id |-> 5, role |-> "none",        gender |-> "M", education_status |-> "undergraduate",
        prep_attended |-> FALSE, active |-> TRUE],
       [id |-> 6, role |-> "none",        gender |-> "F", education_status |-> "undergraduate",
        prep_attended |-> FALSE, active |-> FALSE] >>

from_db_role(role) ==
    CASE role = "facilitator" -> "facilitator"
      [] role = "counselor"   -> "counselor"
      [] OTHER                -> "regular"

\* the GroupMember built from a row of a present member
FromRow(m) ==
    [id |-> m.id, role |-> from_db_role(m.role), gender |-> m.gender,
     education_status |-> m.education_status,
     is_graduated |-> (m.education_status = "graduated"),
     is_present |-> TRUE, prep_attended |-> m.prep_attended]

\* divide_groups: group_members
group_members ==
    LET rows == SelectSeq(Roster, LAMBDA m : m.active /\ m.id \in attendance)
    IN  [i \in 1..Len(rows) |-> FromRow(rows[i])]

\* divide_groups: the request is rejected with a ValueError
DivideRejected ==
    \/ attendance = {}
    \/ Len(group_members) < 4
    \/ Count(group_members, IsLeader) = 0

Min2(a, b) == IF a <= b THEN a ELSE b

\* divide_groups: the num_groups passed to divide_into_groups
InitialNumGroups == Min2(Max2(Len(group_members) \div 6, 2), Count(group_members, IsLeader))

\* get_groups_markdown: the line of one member
MemberLine(member) ==
    LET gender_symbol == CASE member.gender = "M" -> "man"
                           [] member.gender = "F" -> "woman"
                           [] OTHER -> ""
        role_text == CASE member.role = "facilitator" -> <<"staff">>
                       [] member.role = "counselor" -> <<"counselor">>
                       [] OTHER -> <<>>
        edu_text == CASE member.education_status = "graduate" -> <<"graduate student">>
                      [] member.education_status = "graduated" -> <<"graduated">>
                      [] member.education_status = "undergraduate" -> <<"undergraduate">>
                      [] OTHER -> <<>>
    IN  [gender_symbol |-> gender_symbol, name |-> member.id,
         status_parts |-> role_text \o edu_text, prep |-> member.prep_attended]

\* get_groups_markdown: the text built from the stored groups
Markdown(gs) ==
    IF gs # <<>>
    THEN [sections |-> [i \in 1..Len(gs) |-> [k \in 1..Len(gs[i]) |-> MemberLine(gs[i][k])]],
          notice |-> ""]
    ELSE [sections |-> <<>>, notice |-> "No groups have been generated yet"]

\* POST /attendance/record
record_attendance(member_id, present) ==
    /\ pc = "idle"
    /\ served < MaxRequests
    /\ attendance' = IF present THEN attendance \cup {member_id} ELSE attendance \ {member_id}
    /\ served' = served + 1
    /\ UNCHANGED <<pc, members, max_iterations, groups, assigned_members, grad_group_indices,
                   balancerVars, result, requested_num_groups, current_groups, request,
                   generated, exported>>
    /\ UNCHANGED <<response, tableVars, sideVars>>

\* the state at the call divide_into_groups(group_members, num_groups, max_iterations=n)
\* made by a handler while it serves caller c
StartDivision(c, route, n) ==
    /\ pc' = "prep"
    /\ request' = [caller |-> c, route |-> route]
    /\ members' = group_members
    /\ requested_num_groups' = InitialNumGroups
    /\ max_iterations' = n
    /\ groups' = <<>>
    /\ assigned_members' = {}
    /\ grad_group_indices' = {}
    /\ balanced_groups' = <<>>
    /\ non_grad_groups' = <<>>
    /\ initial_member_ids' = {}
    /\ current_entropy' = 0
    /\ best_entropy' = 0
    /\ best_groups' = <<>>
    /\ temp_member_ids' = {}
    /\ iteration' = 0
    /\ result' = <<>>

\* POST /divide-groups, up to the call of divide_into_groups
divide_groups(c) ==
    /\ pc = "idle"
    /\ served < MaxRequests
    /\ served' = served + 1
    /\ IF DivideRejected
       THEN UNCHANGED <<pc, members, max_iterations, groups, assigned_members,
                        grad_group_indices, balancerVars, result, requested_num_groups,
                        request>>
       ELSE StartDivision(c, "divide_groups", 1000)
    /\ UNCHANGED <<attendance, current_groups, generated, exported>>
    /\ UNCHANGED <<response, tableVars, sideVars>>

\* POST /divide-groups, from the return of divide_into_groups
divide_groups_store ==
    /\ pc = "done"
    /\ request.route = "divide_groups"
    /\ current_groups' = result
    /\ generated' = [generated EXCEPT ![request.caller] = result]
    /\ request' = NoRequest
    /\ pc' = "idle"
    /\ UNCHANGED <<members, max_iterations, groups, assigned_members, grad_group_indices,
                   balancerVars, result, requested_num_groups, attendance, exported, served>>
    /\ UNCHANGED <<response, tableVars, sideVars>>

\* GET /, up to the call of divide_into_groups; the page shows no groups when
\* nobody is present, fewer than 4 active members are, or none of them leads
home(c) ==
    /\ pc = "idle"
    /\ served < MaxRequests
    /\ served' = served + 1
    /\ IF DivideRejected
       THEN UNCHANGED <<pc, members, max_iterations, groups, assigned_members,
                        grad_group_indices, balancerVars, result, requested_num_groups,
                        request>>
       ELSE StartDivision(c, "home", 0)
    /\ UNCHANGED <<attendance, current_groups, generated, exported>>
    /\ UNCHANGED <<response, tableVars, sideVars>>

\* (mutant) the page shows its proposal and leaves the stored groups alone
home_show_only ==
    /\ pc = "done"
    /\ request.route = "home"
    /\ request' = NoRequest
    /\ pc' = "idle"
    /\ UNCHANGED <<members, max_iterations, groups, assigned_members, grad_group_indices,
                   balancerVars, result, requested_num_groups, attendance, exported, served,
                   current_groups, generated>>
    /\ UNCHANGED <<response, tableVars, sideVars>>

\* GET /, from the return of divide_into_groups
home_store ==
    /\ pc = "done"
    /\ request.route = "home"
    /\ current_groups' = result
    /\ request' = NoRequest
    /\ pc' = "idle"
    /\ UNCHANGED <<members, max_iterations, groups, assigned_members, grad_group_indices,
                   balancerVars, result, requested_num_groups, attendance, exported, served,
                   generated>>
    /\ UNCHANGED <<response, tableVars, sideVars>>

\* the parameters of divide_into_groups
divide_into_groups_parameters == {"members", "num_groups", "max_iterations"}

\* POST /groups/generate.  With four or more present members the handler calls
\* divide_into_groups(group_members, num_groups, max_iterations=0,
\* target_size=target_size); the call raises TypeError for a keyword the
\* function does not have, "except Exception" catches it, groups stays None
\* and the response carries the error.  With fewer nothing is called.  No
\* groups are stored either way.
generate_groups(c) ==
    /\ pc = "idle"
    /\ served < MaxRequests
    /\ served' = served + 1
    /\ LET called == attendance # {} /\ Len(group_members) >= 4
           raised == called /\ "target_size" \notin divide_into_groups_parameters
       IN  /\ called => raised
           /\ response' = [sent |-> TRUE,
                           present |-> Len(group_members),
                           raised |-> IF raised THEN "TypeError" ELSE "",
                           groups |-> <<>>,
                           error |-> "Not enough members or leaders for groups"]
    /\ UNCHANGED <<pc, members, max_iterations, groups, assigned_members, grad_group_indices,
                   balancerVars, result, requested_num_groups, attendance, current_groups,
                   request, generated, exported>>
    /\ UNCHANGED <<tableVars, sideVars>>

\* GET /groups/markdown
get_groups_markdown(c) ==
    /\ pc = "idle"
    /\ served < MaxRequests
    /\ served' = served + 1
    /\ exported' = [exported EXCEPT ![c] = [asked |-> TRUE,
                                            markdown |-> Markdown(current_groups),
                                            latest |-> generated[c]]]
    /\ UNCHANGED <<pc, members, max_iterations, groups, assigned_members, grad_group_indices,
                   balancerVars, result, requested_num_groups, attendance, current_groups,
                   request, generated>>
    /\ UNCHANGED <<response, tableVars, sideVars>>

\* the application after start-up, the first k members marked present
InitRoutes ==
    /\ pc = "idle"
    /\ \E k \in 0..Len(Roster) : attendance = 1..k
    /\ current_groups = <<>>
    /\ request = NoRequest
    /\ generated = [c \in Callers |-> <<>>]
    /\ exported = [c \in Callers |-> NoExport]
    /\ served = 0
    /\ response = NoResponse
    /\ attendance_rows = <<>>
    /\ latest_form = [p \in AttendancePairs |-> NoForm]
    /\ NoSideCalls
    /\ requested_num_groups = 0
    /\ members = <<>>
    /\ max_iterations = 0
    /\ groups = <<>>
    /\ assigned_members = {}
    /\ grad_group_indices = {}
    /\ balanced_groups = <<>>
    /\ non_grad_groups = <<>>
    /\ initial_member_ids = {}
    /\ current_entropy = 0
    /\ best_entropy = 0
    /\ best_groups = <<>>
    /\ temp_member_ids = {}
    /\ iteration = 0
    /\ result = <<>>

NextRoutes ==
    \/ \E m \in 1..Len(Roster), present \in BOOLEAN : record_attendance(m, present)
    \/ \E c \in Callers : divide_groups(c)
    \/ DividePrep
    \/ DivideLeaders
    \/ DivideRemaining
    \/ BalanceEntry
    \/ divide_groups_store
    \/ \E c \in Callers : home(c)
    \/ home_store
    \/ \E c \in Callers : generate_groups(c)
    \/ \E c \in Callers : get_groups_markdown(c)

SpecRoutes == InitRoutes /\ [][NextRoutes]_vars

-----------------------------------------------------------------------------
(* POST /attendance/record with its whole form and the attendance table.     *)
(* A row is [member_id, date, present, notes]; its id is its position in     *)
(* attendance_rows.  latest_form keeps, per (member_id, date), the values of *)
(* the latest form and the number of forms posted.  The handler awaits only  *)
(* the form, before it reads the table, so requests are served one by one.   *)

\* the values of the present field of the form
PresentValues == {"true", "false", "on"}

\* the values of the notes field of the form
NoteTexts == {"", "late"}

\* date.today()
Today == <<2025, 1, 6>>

\* positions of the rows with Attendance.member_id == member_id and
\* Attendance.date == attendance_date
MatchingRows(rows, member_id, attendance_date) ==
    {i \in 1..Len(rows) : rows[i].member_id = member_id /\ rows[i].date = attendance_date}

\* {record.member_id for record in attendance_records if record.present}
PresentToday(rows) ==
    {rows[i].member_id : i \in {k \in 1..Len(rows) : rows[k].date = Today /\ rows[k].present}}

\* (mutant) every form adds a row
record_attendance_form_always_adds(member_id, attendance_date, present, notes) ==
    /\ pc = "idle"
    /\ served < MaxRequests
    /\ served' = served + 1
    /\ LET day == fromisoformat(attendance_date)
       IN  /\ attendance_rows' = Append(attendance_rows,
                                        [member_id |-> member_id, date |-> day,
                                         present |-> (present = "true"), notes |-> notes])
           /\ latest_form' = [latest_form EXCEPT ![<<member_id, day>>] =
                                 [count |-> @.count + 1, present |-> present, notes |-> notes]]
    /\ attendance' = PresentToday(attendance_rows')
    /\ UNCHANGED <<pc, members, max_iterations, groups, assigned_members, grad_group_indices,
                   balancerVars, result, requested_num_groups, current_groups, request,
                   generated, exported, response>>
    /\ UNCHANGED sideVars

\* POST /attendance/record: the first row of the pair is updated, and a row
\* is added if there is none; .first() is any row of the pair
record_attendance_form(member_id, attendance_date, present, notes) ==
    /\ pc = "idle"
    /\ served < MaxRequests
    /\ served' = served + 1
    /\ LET day == fromisoformat(attendance_date)
           found == MatchingRows(attendance_rows, member_id, day)
       IN  /\ IF found # {}
              THEN \E i \in found :
                      attendance_rows' = [attendance_rows EXCEPT ![i].present = (present = "true"),
                                                                 ![i].notes = notes]
              ELSE attendance_rows' = Append(attendance_rows,
                                             [member_id |-> member_id, date |-> day,
                                              present |-> (present = "true"), notes |-> notes])
           /\ latest_form' = [latest_form EXCEPT ![<<member_id, day>>] =
                                 [count |-> @.count + 1, present |-> present, notes |-> notes]]
    /\ attendance' = PresentToday(attendance_rows')
    /\ UNCHANGED <<pc, members, max_iterations, groups, assigned_members, grad_group_indices,
                   balancerVars, result, requested_num_groups, current_groups, request,
                   generated, exported, response>>
    /\ UNCHANGED sideVars

\* the application after start-up with an empty attendance table
InitAttendance ==
    /\ pc = "idle"
    /\ NoServer
    /\ NoSideCalls
    /\ requested_num_groups = 0
    /\ members = <<>>
    /\ max_iterations = 0
    /\ groups = <<>>
    /\ assigned_members = {}
    /\ grad_group_indices = {}
    /\ balanced_groups = <<>>
    /\ non_grad_groups = <<>>
    /\ initial_member_ids = {}
    /\ current_entropy = 0
    /\ best_entropy = 0
    /\ best_groups = <<>>
    /\ temp_member_ids = {}
    /\ iteration = 0
    /\ result = <<>>

NextAttendance ==
    \E member_id \in AttendanceMembers, attendance_date \in AttendanceDates,
       present \in PresentValues, notes \in NoteTexts :
          record_attendance_form(member_id, attendance_date, present, notes)

SpecAttendance == InitAttendance /\ [][NextAttendance]_vars


-----------------------------------------------------------------------------
(* Group.calculate_diversity_score(all_groups).  Scores are in millionths,   *)
(* like the entropies above.  The method takes no argument besides           *)
(* all_groups: a call that passes target_size raises TypeError before the    *)
(* body runs.  all_groups = <<>> stands for None and for the empty list,     *)
(* which the body treats alike (if all_groups:).                             *)

\* most members of a scored group
MaxScoreSize == 10

RECURSIVE Sum(_)
Sum(ns) == IF ns = <<>> THEN 0 ELSE ns[1] + Sum(Tail(ns))

\* f"{m.gender}_{m.faith_status}"
Characteristic(m) == <<m.gender, m.faith_status>>

\* sum over the labels of count * (ln total - ln count)
RECURSIVE CharacteristicSum(_, _)
CharacteristicSum(labels, group) ==
    IF labels = {} THEN 0
    ELSE LET l == CHOOSE x \in labels : TRUE
             count == Count(group, LAMBDA m : Characteristic(m) = l)
         IN  count * (LnMicro[Len(group)] - LnMicro[count])
             + CharacteristicSum(labels \ {l}, group)

\* diversity -= p * ln(p) over the counts of the characteristics
BaseDiversity(group) ==
    CharacteristicSum({Characteristic(group[k]) : k \in 1..Len(group)}, group) \div Len(group)

\* ((len(self.members) - 8) ** 2) * 0.5 for groups larger than 8
size_penalty(group) ==
    IF Len(group) > 8 THEN (Len(group) - 8) * (Len(group) - 8) * 500000 ELSE 0

\* (abs(len(self.members) - avg_size) ** 2) * 0.3
balance_penalty(group, all_groups) ==
    LET group_sizes == [i \in 1..Len(all_groups) |-> Len(all_groups[i])]
        d == Len(group) * Len(all_groups) - Sum(group_sizes)
    IN  (300000 * d * d) \div (Len(all_groups) * Len(all_groups))

\* (abs(self.prep_attended_count - avg_prep) ** 2) * 0.4
prep_penalty(group, all_groups) ==
    LET prep_counts == [i \in 1..Len(all_groups) |->
                            Count(all_groups[i], LAMBDA m : m.prep_attended)]
        d == Count(group, LAMBDA m : m.prep_attended) * Len(all_groups) - Sum(prep_counts)
    IN  (400000 * d * d) \div (Len(all_groups) * Len(all_groups))

\* (abs(group_leader_ratio - ideal_leader_ratio) ** 2) * len(self.members) * 0.6
leader_density_penalty(group, all_groups) ==
    LET total_leaders == Sum([i \in 1..Len(all_groups) |-> Count(all_groups[i], IsLeader)])
        total_members == Sum([i \in 1..Len(all_groups) |-> Len(all_groups[i])])
        d == IF total_members > 0
             THEN Count(group, IsLeader) * total_members - total_leaders * Len(group)
             ELSE Count(group, IsLeader)
        q == IF total_members > 0 THEN Len(group) * total_members * total_members
             ELSE Len(group)
    IN  (600000 * d * d) \div q

calculate_diversity_score(group, all_groups) ==
    IF group = <<>> THEN 0
    ELSE BaseDiversity(group) - size_penalty(group)
         - (IF all_groups # <<>>
            THEN balance_penalty(group, all_groups) + prep_penalty(group, all_groups)
                 + leader_density_penalty(group, all_groups)
            ELSE 0)

\* the call returns
ScoreReturn ==
    /\ pc = "score"
    /\ ~score.with_target_size
    /\ score' = [score EXCEPT !.outcome = "returned",
                              !.value = calculate_diversity_score(score.self, score.all_groups)]
    /\ pc' = "scored"
    /\ UNCHANGED <<members, max_iterations, groups, assigned_members, grad_group_indices,
                   balancerVars, result, requested_num_groups, routesVars, small_group>>

\* the call passes target_size: unexpected keyword argument
ScoreRaise ==
    /\ pc = "score"
    /\ score.with_target_size
    /\ score' = [score EXCEPT !.outcome = "TypeError"]
    /\ pc' = "scored"
    /\ UNCHANGED <<members, max_iterations, groups, assigned_members, grad_group_indices,
                   balancerVars, result, requested_num_groups, routesVars, small_group>>

(* Inputs: groups of a members of one profile followed by up to two members  *)
(* of another, scored alone, against itself or against itself and a second   *)
(* group, without target_size or with one of three.                          *)

ScoreProfile(kind) ==
    LET base == [gender |-> "M", faith_status |-> "baptized", role |-> "regular",
                 prep_attended |-> FALSE]
    IN  CASE kind = "base"        -> base
          [] kind = "facilitator" -> [base EXCEPT !.role = "facilitator"]
          [] kind = "counselor"   -> [base EXCEPT !.role = "counselor"]
          [] kind = "woman"       -> [base EXCEPT !.gender = "F"]
          [] kind = "seeker"      -> [base EXCEPT !.faith_status = "seeker"]
          [] kind = "prep"        -> [base EXCEPT !.prep_attended = TRUE]

ScoreKinds == {"base", "facilitator", "counselor", "woman", "seeker", "prep"}

ScoreGroups ==
    {Rep(ScoreProfile(k1), a) \o Rep(ScoreProfile(k2), b) :
        k1 \in ScoreKinds, k2 \in ScoreKinds, a \in 0..(MaxScoreSize - 2), b \in 0..2}

ScoreOthers == {Rep(ScoreProfile("base"), 3), Rep(ScoreProfile("prep"), 1) \o Rep(ScoreProfile("counselor"), 1)}

ScoreTargets == {4, 7, 8}

InitScore ==
    /\ pc = "score"
    /\ NoServer
    /\ small_group = [members |-> <<>>, groups |-> <<>>, mbr1 |-> 0, mbr2 |-> 0,
                      returned |-> FALSE, passed |-> FALSE]
    /\ \E g \in ScoreGroups :
       \E ag \in {<<>>, <<g>>} \cup {<<g, o>> : o \in ScoreOthers} :
       \E t \in {0} \cup ScoreTargets :
          score = [self |-> g, all_groups |-> ag, with_target_size |-> (t # 0),
                   target_size |-> t, outcome |-> "none", value |-> 0]
    /\ requested_num_groups = 0
    /\ members = <<>>
    /\ max_iterations = 0
    /\ groups = <<>>
    /\ assigned_members = {}
    /\ grad_group_indices = {}
    /\ balanced_groups = <<>>
    /\ non_grad_groups = <<>>
    /\ initial_member_ids = {}
    /\ current_entropy = 0
    /\ best_entropy = 0
    /\ best_groups = <<>>
    /\ temp_member_ids = {}
    /\ iteration = 0
    /\ result = <<>>

NextScore == ScoreReturn \/ ScoreRaise

SpecScore == InitScore /\ [][NextScore]_vars

-----------------------------------------------------------------------------
(* SmallGroup.two_members_not_in_same_group(mbr1, mbr2) of app/smallgroup.py. *)
(* A member is its id: Member defines no __eq__, so "member in members"      *)
(* compares identities, and the members of a SmallGroup have pairwise        *)
(* distinct ids.  The first member added to an empty table gets id 0         *)
(* (add_member: data["id"] = len(Lamb.query.all())).                         *)

\* most members of a SmallGroup
MaxSmallGroup == 4

\* find_member(id=id): a list with the member found, empty for None
find_member(ms, id) ==
    IF id # 0
    THEN LET hits == SelectSeq(ms, LAMBDA m : m = id)
         IN  IF hits = <<>> THEN <<>> ELSE <<hits[Len(hits)]>>
    ELSE <<>>

\* the loop over self.groups: passed is set by a group holding member2 and not member1
PassedInSomeGroup(gs, member1, member2) ==
    \E g \in 1..Len(gs) : member1 \notin Range(gs[g]) /\ member2 \in Range(gs[g])

two_members_not_in_same_group ==
    /\ pc = "check"
    /\ LET member1 == find_member(small_group.members, small_group.mbr1)
           member2 == find_member(small_group.members, small_group.mbr2)
           passed == IF member1 # <<>> /\ member2 # <<>>
                     THEN PassedInSomeGroup(small_group.groups, member1[1], member2[1])
                     ELSE TRUE
       IN  small_group' = [small_group EXCEPT !.returned = TRUE, !.passed = passed]
    /\ pc' = "checked"
    /\ UNCHANGED <<members, max_iterations, groups, assigned_members, grad_group_indices,
                   balancerVars, result, requested_num_groups, routesVars, score>>

(* Inputs: members with ids 0..n-1, each in one of two groups or in none,    *)
(* and every pair of ids from 0 to n, the last of which names no member.     *)

\* the groups given the place (0: none, 1 or 2: the group) of each member
GroupsByPlace(place) ==
    [g \in 1..2 |-> SelectSeq([i \in 1..Len(place) |-> i - 1], LAMBDA id : place[id + 1] = g)]

InitSmallGroup ==
    /\ pc = "check"
    /\ NoServer
    /\ score = [self |-> <<>>, all_groups |-> <<>>, with_target_size |-> FALSE,
                target_size |-> 0, outcome |-> "none", value |-> 0]
    /\ \E n \in 0..MaxSmallGroup :
       \E place \in [1..n -> 0..2] :
       \E a \in 0..n, b \in 0..n :
          small_group = [members |-> [i \in 1..n |-> i - 1], groups |-> GroupsByPlace(place),
                         mbr1 |-> a, mbr2 |-> b, returned |-> FALSE, passed |-> FALSE]
    /\ requested_num_groups = 0
    /\ members = <<>>
    /\ max_iterations = 0
    /\ groups = <<>>
    /\ assigned_members = {}
    /\ grad_group_indices = {}
    /\ balanced_groups = <<>>
    /\ non_grad_groups = <<>>
    /\ initial_member_ids = {}
    /\ current_entropy = 0
    /\ best_entropy = 0
    /\ best_groups = <<>>
    /\ temp_member_ids = {}
    /\ iteration = 0
    /\ result = <<>>

NextSmallGroup == two_members_not_in_same_group

SpecSmallGroup == InitSmallGroup /\ [][NextSmallGroup]_vars

-----------------------------------------------------------------------------
(* Properties of divide_into_groups (SpecDivide: max_iterations = 0)         *)

\* number of places (group, position) of the partition gs that hold member m
Occurrences(gs, m) ==
    Cardinality({<<i, k>> \in (1..Len(gs)) \X (1..(MaxMembers + MaxAbsent + 1)) :
                    k <= Len(gs[i]) /\ gs[i][k] = m})

InputHas(Test(_)) == \E k \in 1..Len(members) : Test(members[k])

PresentLeader(m) == m.is_present /\ IsLeader(m)

\* C1: with max_iterations = 0 the returned groups are a set-partition of the
\* present members: each present member of the input is in exactly one place,
\* no absent member is in any group, and the groups hold nothing else.
C1_PresentMembersPartitioned ==
    pc = "done" =>
        /\ \A k \in 1..Len(members) :
              Occurrences(result, members[k]) = IF members[k].is_present THEN 1 ELSE 0
        /\ \A i \in 1..Len(result) : Range(result[i]) \subseteq Range(members)

\* C1 witness: a returned two-group partition of an input with an absent member,
\* prep attendees, leaders, graduates and students
C1_Witness ==
    /\ pc = "done"
    /\ Len(result) = 2
    /\ InputHas(LAMBDA m : ~m.is_present)
    /\ InputHas(LAMBDA m : m.is_present /\ m.prep_attended)
    /\ InputHas(LAMBDA m : m.is_present /\ ~m.prep_attended /\ IsLeader(m))
    /\ InputHas(LAMBDA m : m.is_present /\ ~m.prep_attended /\ ~IsLeader(m) /\ EduGraduated(m))
    /\ InputHas(LAMBDA m : m.is_present /\ ~m.prep_attended /\ ~IsLeader(m) /\ ~EduGraduated(m))

\* C3 (as claimed): in a returned partition every group that is not a designated
\* graduate group holds a facilitator or counselor, whenever a leader is present
C3_EveryNonGraduateGroupHasLeader ==
    (pc = "done" /\ InputHas(PresentLeader)) =>
        \A i \in 1..Len(result) :
            i \notin grad_group_indices => Count(result[i], IsLeader) > 0

\* C4 (as claimed): with at least 4 present members every returned group has
\* at least 4 members
C4_EveryGroupHasFourMembers ==
    (pc = "done" /\ total_present >= 4) =>
        \A i \in 1..Len(result) : Len(result[i]) >= 4

\* C5 (as claimed): the call does not return a partition when fewer than 4
\* members are present (it fails with an error instead)
C5_NoPartitionBelowFourPresent ==
    pc = "done" => total_present >= 4

\* C6 (as claimed): the call does not return a partition when at least 4 members
\* are present and none of them is a facilitator or counselor
C6_NoPartitionWithoutLeaders ==
    (pc = "done" /\ total_present >= 4) => InputHas(PresentLeader)

-----------------------------------------------------------------------------
(* Properties of balance_gender_in_groups (SpecBalance)                      *)

\* the pass went beyond the early return: the loop variables are set
PassStarted == pc = "loop" \/ (pc = "done" /\ Len(non_grad_groups) >= 2)

GroupsHas(Test(_)) ==
    \E i \in 1..Len(groups) : \E k \in 1..Len(groups[i]) : Test(groups[i][k])

\* some place of the partition gs holds another member than the input does
DiffersFromInput(gs) ==
    \E i \in 1..Len(groups) :
        i <= Len(gs) /\ \E k \in 1..Len(groups[i]) :
            k <= Len(gs[i]) /\ gs[i][k] # groups[i][k]

\* C2: the returned partition holds every member id as often as the input
\* partition does (no member lost, none duplicated), for every iteration budget
\* and every sequence of draws and acceptances.
C2_MemberIdsPreserved ==
    pc = "done" =>
        \A id \in get_member_ids(groups) \cup get_member_ids(result) :
            Count(AllIds(result), LAMBDA x : x = id)
                = Count(AllIds(groups), LAMBDA x : x = id)

\* C2 witness: a pass over an input with a graduate group returned a partition
\* that differs from its input
C2_Witness ==
    /\ pc = "done"
    /\ \E i \in 1..Len(groups) : ~is_non_graduate_group(groups[i])
    /\ DiffersFromInput(result)

C8_ReturnsBestSeen ==
    /\ PassStarted =>
          /\ best_entropy = TotalEntropy(best_groups)
          /\ current_entropy = TotalEntropy(balanced_groups)
          /\ best_entropy >= current_entropy
          /\ best_entropy >= TotalEntropy(groups)
    /\ pc = "done" =>
          /\ TotalEntropy(result) >= TotalEntropy(groups)
          /\ PassStarted => result = best_groups

\* C8 witness: a pass found a better partition, then accepted a worse one, and
\* returned the better one
C8_Witness ==
    /\ pc = "done"
    /\ PassStarted
    /\ current_entropy < best_entropy
    /\ TotalEntropy(result) > TotalEntropy(groups)
    /\ result # balanced_groups

\* the member new may stand in for the member old of the input
Exchangeable(old, new) ==
    /\ new.gender # old.gender
    /\ new.role = old.role
    /\ new.prep_attended = old.prep_attended
    /\ ~new.is_graduated
    /\ ~old.is_graduated

\* place by place the partition gs holds the member of the input or an
\* exchangeable member of another input group, and so every group keeps its
\* size, its members per role, its prep attendees and its graduated members
SameUpToExchanges(gs) ==
    /\ Len(gs) = Len(groups)
    /\ \A i \in 1..Len(groups) :
          /\ Len(gs[i]) = Len(groups[i])
          /\ \A k \in 1..Len(groups[i]) :
                \/ gs[i][k] = groups[i][k]
                \/ /\ Exchangeable(groups[i][k], gs[i][k])
                   /\ \E j \in (1..Len(groups)) \ {i} : gs[i][k] \in Range(groups[j])
          /\ \A r \in {"regular", "counselor", "facilitator"} :
                Count(gs[i], LAMBDA m : m.role = r) = Count(groups[i], LAMBDA m : m.role = r)
          /\ Count(gs[i], LAMBDA m : m.prep_attended)
                = Count(groups[i], LAMBDA m : m.prep_attended)
          /\ {m \in Range(gs[i]) : m.is_graduated} = {m \in Range(groups[i]) : m.is_graduated}

\* C9: members only change places with a member of another group of the other
\* gender, the same role and the same prep_attended flag, neither graduated; at
\* every position the working, the best and the returned group have the size,
\* the members per role, the prep attendees and the graduated members of the
\* input group.
C9_OnlyLikeForLikeExchanges ==
    /\ PassStarted => SameUpToExchanges(balanced_groups) /\ SameUpToExchanges(best_groups)
    /\ pc = "done" => SameUpToExchanges(result)

\* C9 witness: a returned partition that differs from an input holding a
\* facilitator, a graduated counselor and counselors and regular members
C9_Witness ==
    /\ pc = "done"
    /\ DiffersFromInput(result)
    /\ GroupsHas(IsFacilitator)
    /\ GroupsHas(LAMBDA m : m.is_graduated)
    /\ GroupsHas(LAMBDA m : m.role = "regular")

HalfMaleHalfFemale(group) ==
    Count(group, LAMBDA m : m.gender = "M") = Count(group, LAMBDA m : m.gender = "F")

\* C10 (as claimed): when every group of the input is half male and half female,
\* every returned group has exactly the members of the input group
C10_BalancedInputKeepsMembers ==
    (pc = "done" /\ \A i \in 1..Len(groups) : HalfMaleHalfFemale(groups[i])) =>
        /\ Len(result) = Len(groups)
        /\ \A i \in 1..Len(groups) : Range(result[i]) = Range(groups[i])

\* |males - females| of a group
GenderGap(group) ==
    LET males == Count(group, LAMBDA m : m.gender = "M")
        females == Count(group, LAMBDA m : m.gender = "F")
    IN  IF males >= females THEN males - females ELSE females - males

\* total gender imbalance of a partition: the sum of the gaps of its groups
RECURSIVE GenderImbalance(_)
GenderImbalance(gs) ==
    IF gs = <<>> THEN 0 ELSE GenderGap(gs[1]) + GenderImbalance(Tail(gs))

\* C11 (as claimed): the returned partition has no greater total gender
\* imbalance (sum over the groups of |males - females|) than the input
C11_ImbalanceNotIncreased ==
    pc = "done" => GenderImbalance(result) <= GenderImbalance(groups)

-----------------------------------------------------------------------------
(* Further properties of divide_into_groups (SpecDivide)                     *)

\* C13 (as claimed): when at least as many leaders are present as groups are
\* formed, every returned group holds a facilitator or counselor
C13_LeaderInEveryGroupIfEnough ==
    (pc = "done" /\ Count(present_members, IsLeader) >= Len(result)) =>
        \A i \in 1..Len(result) : Count(result[i], IsLeader) > 0

\* C14 (as claimed): a call with num_groups = k and at least 2k present members
\* returns exactly k groups
C14_RequestedGroupCountHonoured ==
    (pc = "done" /\ total_present >= 2 * requested_num_groups) =>
        Len(result) = requested_num_groups

\* the least n >= 1 with 7 n >= p, that is max(1, ceil(p / 7))
GroupsFor(p) == CHOOSE n \in 1..(p + 1) : 7 * n >= p /\ (n = 1 \/ 7 * (n - 1) < p)

HasGraduate(group) == Count(group, LAMBDA m : m.is_graduated) > 0

FirstGraduateGroup(gs) ==
    gs[CHOOSE i \in 1..Len(gs) : HasGraduate(gs[i]) /\ \A j \in 1..(i - 1) : ~HasGraduate(gs[j])]

\* C18 (as claimed): when at least 4 graduated members are present, the first
\* returned group that contains a graduated member consists only of graduated
\* members
C18_GraduatesInOwnGroup ==
    (pc = "done" /\ Count(present_members, LAMBDA m : m.is_graduated) >= 4) =>
        /\ \E i \in 1..Len(result) : HasGraduate(result[i])
        /\ Count(FirstGraduateGroup(result), LAMBDA m : m.is_graduated)
               = Len(FirstGraduateGroup(result))

\* the present members that prep and leader seeding left unplaced
Unplaced == SelectSeq(present_members, LAMBDA m : m \notin assigned_members)

C17_CounselorsEven ==
    (pc = "done" /\ max_iterations = 0) =>
        \A i \in 1..Len(result), j \in 1..Len(result) :
            Count(result[i], IsCounselor) - Count(result[j], IsCounselor) <= 1

\* C19 (as claimed): when no present member is graduated, the largest and the
\* smallest returned group differ by at most 2 members
C19_GroupSizesWithinTwo ==
    (pc = "done" /\ Count(present_members, LAMBDA m : m.is_graduated) = 0) =>
        \A i \in 1..Len(result), j \in 1..Len(result) :
            Len(result[i]) - Len(result[j]) <= 2

-----------------------------------------------------------------------------
(* Properties of the groups of a balancing pass (SpecBalance) *)

\* the group g with the member at exactly one position replaced by another
OneMemberReplaced(g, h) ==
    /\ Len(h) = Len(g)
    /\ Cardinality({k \in 1..Len(g) : h[k] # g[k]}) = 1

\* every group of gs is the input group at its position, or that group with
\* exactly one member replaced
AtMostOneSwapEach(gs) ==
    /\ Len(gs) = Len(groups)
    /\ \A i \in 1..Len(gs) : gs[i] = groups[i] \/ OneMemberReplaced(groups[i], gs[i])

\* C28: at every point of a balancing pass each group of the working
\* partition and of the best partition, and each group of the returned
\* partition, is the input group at the same position or that group with
\* exactly one member replaced
C28_AtMostOneSwapPerGroup ==
    /\ pc = "loop" => AtMostOneSwapEach(balanced_groups) /\ AtMostOneSwapEach(best_groups)
    /\ pc = "done" => AtMostOneSwapEach(result)

\* C28 witness: a pass of two iterations accepted two different candidates,
\* the first of which is the returned partition
C28_Witness ==
    /\ pc = "done"
    /\ iteration = 2
    /\ result # groups
    /\ balanced_groups # groups
    /\ balanced_groups # result
    /\ \E i \in 1..Len(result) : OneMemberReplaced(groups[i], result[i])

\* the group holds a graduated member of role regular
HasGraduatedRegular(g) == \E k \in 1..Len(g) : g[k].role = "regular" /\ g[k].is_graduated

\* every group of the input that holds a graduated regular member is in gs
\* exactly as it was in the input
GraduateGroupsAsGiven(gs) ==
    /\ Len(gs) = Len(groups)
    /\ \A i \in 1..Len(groups) : HasGraduatedRegular(groups[i]) => gs[i] = groups[i]

\* C29: the working partition of a pass and the returned partition have
\* every group that holds a graduated regular member exactly as it was in the
\* input, and the returned partition is the input itself when fewer than two
\* groups are free of graduated regular members
C29_GraduateGroupsUntouched ==
    /\ pc = "loop" => GraduateGroupsAsGiven(balanced_groups)
    /\ pc = "done" =>
        /\ GraduateGroupsAsGiven(result)
        /\ Cardinality({i \in 1..Len(groups) : ~HasGraduatedRegular(groups[i])}) < 2 =>
               result = groups

\* C29 witness: a pass returned a partition with a swap, next to a graduate
\* group that holds a member who could have been exchanged with a member of
\* another group
C29_Witness ==
    /\ pc = "done"
    /\ result # groups
    /\ \E i \in 1..Len(groups), j \in 1..Len(groups) :
          /\ i # j
          /\ HasGraduatedRegular(groups[i])
          /\ result[i] = groups[i]
          /\ \E k \in 1..Len(groups[i]), n \in 1..Len(groups[j]) :
                /\ groups[i][k].gender # groups[j][n].gender
                /\ groups[i][k].role = groups[j][n].role
                /\ groups[i][k].prep_attended = groups[j][n].prep_attended
                /\ ~groups[i][k].is_graduated
                /\ ~groups[j][n].is_graduated

-----------------------------------------------------------------------------
(* Properties of long balancing passes (SpecBalanceLong) *)

\* no iteration of the pass so far has improved on the partition at entry
NoImprovementYet == best_entropy = calculate_gender_entropy(groups)

\* C23 (as claimed): the loop never uses more than max_iterations iterations,
\* and it stops once more than 100 iterations in a row have found no
\* improvement, so that no further iteration is spent after the 101st
C23_StopsOnceStagnant ==
    /\ iteration <= max_iterations
    /\ (pc = "loop" /\ NoImprovementYet) => iteration <= 101

\* C23 (amended): the loop has no early stop.  A pass over two or more
\* non-graduate groups never exceeds max_iterations iterations, returns only
\* after exactly max_iterations iterations, however many of them brought no
\* improvement, and does return.
C23_RunsWholeBudget ==
    /\ [](iteration <= max_iterations)
    /\ []((pc = "done" /\ Len(non_grad_groups) >= 2) => iteration = max_iterations)
    /\ <>(pc = "done")

\* C23 witness: a pass still running after 102 iterations without improvement
C23_Witness ==
    /\ pc = "loop"
    /\ iteration = 102
    /\ iteration < max_iterations
    /\ NoImprovementYet

-----------------------------------------------------------------------------
(* Properties of divide_into_groups with any max_iterations                  *)
(* (SpecDivideBalanced)                                                      *)

PrepCount(group) == Count(group, LAMBDA m : m.prep_attended)

\* C16: in every returned partition the numbers of prep attendees of any two
\* groups differ by at most 1, and every group has a prep attendee when at
\* least as many prep attendees are present as there are groups.
C16_PrepAttendeesEven ==
    pc = "done" =>
        /\ \A i \in 1..Len(result), j \in 1..Len(result) :
              PrepCount(result[i]) - PrepCount(result[j]) <= 1
        /\ PrepCount(present_members) >= Len(result) =>
              \A i \in 1..Len(result) : PrepCount(result[i]) >= 1

\* C16 witness: a balanced partition that differs from the one the three phases
\* built, for an input with two prep attendees
C16_Witness ==
    /\ pc = "done"
    /\ max_iterations > 0
    /\ result # groups
    /\ PrepCount(present_members) = 2
    /\ \A i \in 1..Len(result) : PrepCount(result[i]) = 1


-----------------------------------------------------------------------------
(* Properties of the group requests of app/routes.py (SpecRoutes) *)

\* C12 (as claimed): whatever the order of the callers' requests, a partition
\* exported to a caller by GET /groups/markdown is the partition that the same
\* caller generated most recently
C12_ExportIsCallersOwnPartition ==
    \A c \in Callers :
        (exported[c].asked /\ exported[c].markdown.sections # <<>>) =>
            exported[c].markdown = Markdown(exported[c].latest)

\* C26 (as claimed): loading the home page does not change the stored
\* partition.  While only one caller has generated partitions, whatever GET /
\* requests were served in between, an export to that caller shows the
\* partition its latest POST /divide-groups displayed.
C26_HomeKeepsStoredPartition ==
    \A c \in Callers :
        (/\ exported[c].asked
         /\ exported[c].latest # <<>>
         /\ \A d \in Callers \ {c} : generated[d] = <<>>) =>
            exported[c].markdown = Markdown(exported[c].latest)

\* C26 (amended): GET /groups/markdown exports the stored partition without
\* changing it.  A request that runs no division (an export, an attendance
\* record, POST /groups/generate, and GET / or POST /divide-groups when nobody
\* is present, fewer than 4 active members are, or none of them is a leader)
\* leaves the stored partition unchanged.  Every division that returns, that
\* of GET / like that of POST /divide-groups, replaces the stored partition by
\* the partition the response displays.
C26_HomeStoresWhatItDisplays ==
    [][/\ exported' # exported =>
            /\ current_groups' = current_groups
            /\ \E c \in Callers :
                  /\ exported'[c].markdown = Markdown(current_groups)
                  /\ \A d \in Callers \ {c} : exported'[d] = exported[d]
       /\ (pc = "idle" /\ pc' = "idle") => current_groups' = current_groups
       /\ (pc = "idle" /\ pc' # "idle") => ~DivideRejected
       /\ pc # "idle" => served' = served
       /\ (pc = "done" /\ pc' = "idle") => current_groups' = result
    ]_vars

\* C26 witness: a caller generated a partition, GET / replaced it by another
\* one, and the export then served to the caller shows the replacement
C26_Witness ==
    /\ pc = "idle"
    /\ generated["a"] # <<>>
    /\ generated["b"] = <<>>
    /\ current_groups # generated["a"]
    /\ exported["a"].asked
    /\ exported["a"].latest = generated["a"]
    /\ exported["a"].markdown = Markdown(current_groups)
    /\ exported["a"].markdown # Markdown(generated["a"])

\* C27: a response of POST /groups/generate given while at least 4 active
\* members were marked present carries a partition and no error message
\* (the partition being the one the handler stored as the current groups)
C27_GenerateReturnsGroups ==
    (response.sent /\ response.present >= 4) =>
        /\ response.error = ""
        /\ response.groups # <<>>

-----------------------------------------------------------------------------
(* Properties of the attendance table (SpecAttendance) *)

\* C30: the table holds at most one row per (member_id, date), and the row
\* has the notes of the latest form posted for the pair and is marked present
\* exactly if that form said "true"
C30_OneRowPerMemberAndDate ==
    \A p \in AttendancePairs :
        LET found == MatchingRows(attendance_rows, p[1], p[2])
        IN  /\ Cardinality(found) <= 1
            /\ \A i \in found :
                  /\ latest_form[p].count > 0
                  /\ attendance_rows[i].present = (latest_form[p].present = "true")
                  /\ attendance_rows[i].notes = latest_form[p].notes

\* C30 witness: three forms were posted for one pair, the latest with notes
\* and marked present, next to a row of another pair
C30_Witness ==
    \E p \in AttendancePairs :
        /\ latest_form[p].count = 3
        /\ latest_form[p].present = "true"
        /\ latest_form[p].notes = "late"
        /\ Len(attendance_rows) = 2
        /\ \E i \in MatchingRows(attendance_rows, p[1], p[2]) :
              attendance_rows[i].present /\ attendance_rows[i].notes = "late"

-----------------------------------------------------------------------------
(* Properties of Group.calculate_diversity_score (SpecScore) *)

\* a group of n >= 2 members alike in everything except that exactly one is a
\* facilitator and the others are regular members
OneRoleChanged(group) ==
    /\ Len(group) >= 2
    /\ Count(group, IsFacilitator) = 1
    /\ Count(group, LAMBDA m : m.role = "regular") = Len(group) - 1
    /\ \A i \in 1..Len(group) :
          [group[i] EXCEPT !.role = "regular"] = [group[1] EXCEPT !.role = "regular"]

\* the same group before the change of role
AllRegular(group) == [i \in 1..Len(group) |-> [group[i] EXCEPT !.role = "regular"]]

\* C21 (as claimed): for a group of members alike in gender, faith status and
\* role, scored as the only group, making one member a facilitator strictly
\* raises the score
C21_RoleDiversityRaisesScore ==
    (pc = "scored" /\ score.outcome = "returned" /\ OneRoleChanged(score.self)
        /\ score.all_groups = <<score.self>>) =>
        score.value > calculate_diversity_score(AllRegular(score.self), <<AllRegular(score.self)>>)

\* the penalty of the claim for a group of the given size and a target size
ClaimedSizePenalty(size, target_size) ==
    IF size > target_size + 1
    THEN 500000 * (size - (target_size + 1)) * (size - (target_size + 1))
    ELSE 0

\* C22 (as claimed): a call that supplies target_size returns the score whose
\* oversize penalty is taken from that target: nothing up to target_size + 1
\* members, 0.5 * (size - (target_size + 1))^2 above
C22_PenaltyFollowsTargetSize ==
    (pc = "scored" /\ score.with_target_size /\ score.self # <<>>) =>
        /\ score.outcome = "returned"
        /\ score.value = BaseDiversity(score.self)
                           - ClaimedSizePenalty(Len(score.self), score.target_size)
                           - (IF score.all_groups # <<>>
                              THEN balance_penalty(score.self, score.all_groups)
                                   + prep_penalty(score.self, score.all_groups)
                                   + leader_density_penalty(score.self, score.all_groups)
                              ELSE 0)

-----------------------------------------------------------------------------
(* Properties of SmallGroup.two_members_not_in_same_group (SpecSmallGroup) *)

\* the positions of the groups that hold the member
GroupsHolding(id) ==
    {g \in 1..Len(small_group.groups) :
        \E k \in 1..Len(small_group.groups[g]) : small_group.groups[g][k] = id}

\* C25 (as claimed): when both ids name members and each of the two members is
\* in exactly one group, the call returns True if the two groups differ and
\* False if they are the same group
C25_TrueIffInDifferentGroups ==
    (/\ pc = "checked"
     /\ \E k \in 1..Len(small_group.members) : small_group.members[k] = small_group.mbr1
     /\ \E k \in 1..Len(small_group.members) : small_group.members[k] = small_group.mbr2
     /\ Cardinality(GroupsHolding(small_group.mbr1)) = 1
     /\ Cardinality(GroupsHolding(small_group.mbr2)) = 1) =>
        (small_group.passed <=> GroupsHolding(small_group.mbr1) # GroupsHolding(small_group.mbr2))

====
